---- MODULE Spec2Model ----
(***************************************************************************)
(* Model of src/app.py, the MR Rekruttering invoice generator: cleaning of *)
(* the uploaded shift sheet, the three client rate policies, the invoice   *)
(* construction (sort, Kirsten surcharge merge), the generate gate and the *)
(* totals printed by generer_pdf.                                          *)
(*                                                                         *)
(* Text is modelled as a sequence of one-character strings so that the     *)
(* Python string operations (split, strip, lower, slicing, "in", int())    *)
(* are computed as the code computes them.  Money is counted in units of   *)
(* 1/400 kr (a quarter of an øre) so that 25 % of an amount in whole øre   *)
(* is exact; binary floating-point rounding and the "%.2f" formatting of   *)
(* the printed figures are not modelled.                                   *)
(***************************************************************************)
EXTENDS Integers, Sequences, FiniteSets, TLC

(***************************************************************************)
(* Characters and Python string operations                                 *)
(***************************************************************************)

\* The non-breaking space U+00A0 (one character).
NBSP == "nbsp"

\* The characters of the modelled texts, in code point order (Python
\* compares strings by code point).
Chars ==
  << " ", "-", ".", "/",
     "0", "1", "2", "3", "4", "5", "6", "7", "8", "9", ":",
     "A", "B", "C", "D", "E", "F", "G", "H", "I", "J", "K", "L", "M",
     "N", "O", "P", "Q", "R", "S", "T", "U", "V", "W", "X", "Y", "Z",
     "a", "b", "c", "d", "e", "f", "g", "h", "i", "j", "k", "l", "m",
     "n", "o", "p", "q", "r", "s", "t", "u", "v", "w", "x", "y", "z",
     NBSP, "Å", "Æ", "Ø", "å", "æ", "ø" >>

Ord(c) == CHOOSE i \in 1..Len(Chars) : Chars[i] = c

UpperCase ==
  << "A", "B", "C", "D", "E", "F", "G", "H", "I", "J", "K", "L", "M",
     "N", "O", "P", "Q", "R", "S", "T", "U", "V", "W", "X", "Y", "Z",
     "Å", "Æ", "Ø" >>

LowerCase ==
  << "a", "b", "c", "d", "e", "f", "g", "h", "i", "j", "k", "l", "m",
     "n", "o", "p", "q", "r", "s", "t", "u", "v", "w", "x", "y", "z",
     "å", "æ", "ø" >>

Digits == << "0", "1", "2", "3", "4", "5", "6", "7", "8", "9" >>

\* str.isspace() for one character.
IsSpace(c) == c \in {" ", NBSP}

IsDigit(c) == \E i \in 1..10 : Digits[i] = c

DigitVal(c) == (CHOOSE i \in 1..10 : Digits[i] = c) - 1

LowerChar(c) ==
  IF \E i \in 1..Len(UpperCase) : UpperCase[i] = c
    THEN LowerCase[CHOOSE i \in 1..Len(UpperCase) : UpperCase[i] = c]
    ELSE c

\* str.lower()
Lower(s) == [i \in 1..Len(s) |-> LowerChar(s[i])]

\* s[:n]
Prefix(s, n) == SubSeq(s, 1, IF Len(s) < n THEN Len(s) ELSE n)

\* pat in s
Contains(s, pat) ==
  \E i \in 1..(Len(s) - Len(pat) + 1) : SubSeq(s, i, i + Len(pat) - 1) = pat

RECURSIVE LStrip(_)
LStrip(s) == IF s # << >> /\ IsSpace(Head(s)) THEN LStrip(Tail(s)) ELSE s

RECURSIVE RStrip(_)
RStrip(s) ==
  IF s # << >> /\ IsSpace(s[Len(s)]) THEN RStrip(SubSeq(s, 1, Len(s) - 1)) ELSE s

\* str.strip()
Strip(s) == RStrip(LStrip(s))

\* str.replace(old, new) for single characters.
ReplaceChar(s, old, new) == [i \in 1..Len(s) |-> IF s[i] = old THEN new ELSE s[i]]

\* str.split(sep) for a one-character separator: always at least one part.
RECURSIVE SplitFrom(_, _, _)
SplitFrom(s, sep, cur) ==
  IF s = << >> THEN << cur >>
  ELSE IF Head(s) = sep THEN << cur >> \o SplitFrom(Tail(s), sep, << >>)
  ELSE SplitFrom(Tail(s), sep, Append(cur, Head(s)))

Split(s, sep) == SplitFrom(s, sep, << >>)

\* str.split() with no argument: split on runs of whitespace, no empty parts.
RECURSIVE SplitWsFrom(_, _)
SplitWsFrom(s, cur) ==
  IF s = << >> THEN (IF cur = << >> THEN << >> ELSE << cur >>)
  ELSE IF IsSpace(Head(s))
    THEN (IF cur = << >> THEN << >> ELSE << cur >>) \o SplitWsFrom(Tail(s), << >>)
  ELSE SplitWsFrom(Tail(s), Append(cur, Head(s)))

\* " ".join(parts)
RECURSIVE JoinSpace(_)
JoinSpace(parts) ==
  IF parts = << >> THEN << >>
  ELSE IF Len(parts) = 1 THEN parts[1]
  ELSE parts[1] \o << " " >> \o JoinSpace(Tail(parts))

\* " ".join(s.split())
CollapseWs(s) == JoinSpace(SplitWsFrom(s, << >>))

\* int(s): surrounding whitespace and one sign are accepted, then decimal
\* digits only.  IntOk(s) is "int(s) does not raise".
IntBody(s) ==
  LET t == Strip(s)
  IN IF t # << >> /\ Head(t) \in {"+", "-"} THEN Tail(t) ELSE t

IntOk(s) == IntBody(s) # << >> /\ \A i \in 1..Len(IntBody(s)) : IsDigit(IntBody(s)[i])

RECURSIVE DigitsVal(_, _)
DigitsVal(s, acc) ==
  IF s = << >> THEN acc ELSE DigitsVal(Tail(s), acc * 10 + DigitVal(Head(s)))

IntVal(s) ==
  LET t == Strip(s)
      v == DigitsVal(IntBody(s), 0)
  IN IF t # << >> /\ Head(t) = "-" THEN 0 - v ELSE v

\* Lexicographic order of two texts by code point: s < t.
RECURSIVE StrLess(_, _)
StrLess(s, t) ==
  IF t = << >> THEN FALSE
  ELSE IF s = << >> THEN TRUE
  ELSE IF Head(s) # Head(t) THEN Ord(Head(s)) < Ord(Head(t))
  ELSE StrLess(Tail(s), Tail(t))

(***************************************************************************)
(* Sheet cells.  A cell is a record with a tag t:                          *)
(*   [t |-> "nan"]                      an empty cell (pandas NaN)         *)
(*   [t |-> "str", s |-> text]          a text cell                        *)
(*   [t |-> "num", v |-> integer]       a numeric cell (whole hours)       *)
(*   [t |-> "date", y, m, d]            a date cell                        *)
(***************************************************************************)
NaN == [t |-> "nan"]

Txt(s) == [t |-> "str", s |-> s]

Num(v) == [t |-> "num", v |-> v]

Date(y, m, d) == [y |-> y, m |-> m, d |-> d]

DateCell(y, m, d) == [t |-> "date", y |-> y, m |-> m, d |-> d]

\* pd.isna(val)
IsNa(cell) == cell.t = "nan"

\* str(val) of a text or empty cell: str(float("nan")) is "nan".
PyStr(cell) == IF cell.t = "nan" THEN << "n", "a", "n" >> ELSE cell.s

(***************************************************************************)
(* Calendar, as datetime.date computes it                                  *)
(***************************************************************************)
IsLeap(y) == y % 4 = 0 /\ (y % 100 # 0 \/ y % 400 = 0)

DaysInMonth(y, m) ==
  IF m = 2 THEN (IF IsLeap(y) THEN 29 ELSE 28)
  ELSE IF m \in {4, 6, 9, 11} THEN 30 ELSE 31

DaysBeforeYear(y) ==
  LET p == y - 1 IN p * 365 + (p \div 4) - (p \div 100) + (p \div 400)

RECURSIVE DaysBeforeMonth(_, _)
DaysBeforeMonth(y, m) ==
  IF m = 1 THEN 0 ELSE DaysBeforeMonth(y, m - 1) + DaysInMonth(y, m - 1)

\* date.toordinal()
Ordinal(dt) == DaysBeforeYear(dt.y) + DaysBeforeMonth(dt.y, dt.m) + dt.d

\* date.weekday(): Monday is 0, Sunday is 6.
Weekday(dt) == (Ordinal(dt) + 6) % 7

ValidDate(y, m, d) == y >= 1 /\ m \in 1..12 /\ d >= 1 /\ d <= DaysInMonth(y, m)

(***************************************************************************)
(* HELPERS (app.py lines 74-126)                                           *)
(***************************************************************************)
Ufaglaert == << "u", "f", "a", "g", "l", "æ", "r", "t" >>

Hjaelper == << "h", "j", "æ", "l", "p", "e", "r" >>

Assistent == << "a", "s", "s", "i", "s", "t", "e", "n", "t" >>

Sygeplejerske == << "s", "y", "g", "e", "p", "l", "e", "j", "e", "r", "s", "k", "e" >>

\* normalize_personale(val), val a cell of the sheet (never None).
normalize_personale(val) ==
  LET s0 == CollapseWs(Lower(Strip(ReplaceChar(PyStr(val), NBSP, " "))))
      s  == IF s0 = Assistent \o << " ", "2" >> THEN Assistent ELSE s0
  IN IF Contains(s, << "u", "f", "a", "g", "l" >>) THEN Ufaglaert
     ELSE IF Contains(s, << "h", "j", "æ", "l", "p" >>) THEN Hjaelper
     ELSE IF Contains(s, << "a", "s", "s", "i", "s", "t" >>) THEN Assistent
     ELSE IF Contains(s, << "s", "y", "g", "e", "p", "l" >>) THEN Sygeplejerske
     ELSE s

NaT == [ok |-> FALSE, y |-> 0, m |-> 0, d |-> 0]

\* pd.to_datetime(cell, dayfirst=True, errors="coerce") for a date cell, an
\* empty cell, or a text cell; of the text forms pandas reads, the day-first
\* form DD-MM-YYYY is modelled, any other text is taken as not a date.
ensure_datetime(cell) ==
  IF cell.t = "date" THEN [ok |-> TRUE, y |-> cell.y, m |-> cell.m, d |-> cell.d]
  ELSE IF cell.t = "str" THEN
    LET parts == Split(Strip(cell.s), "-")
    IN IF Len(parts) = 3
          /\ \A i \in 1..3 :
               parts[i] # << >> /\ \A j \in 1..Len(parts[i]) : IsDigit(parts[i][j])
         THEN LET d == IntVal(parts[1])
                  m == IntVal(parts[2])
                  y == IntVal(parts[3])
              IN IF ValidDate(y, m, d) THEN [ok |-> TRUE, y |-> y, m |-> m, d |-> d]
                 ELSE NaT
         ELSE NaT
  ELSE NaT

\* pd.to_numeric(cell, errors="coerce"): a number, or not-a-number.
to_numeric(cell) ==
  IF cell.t = "num" THEN [ok |-> TRUE, v |-> cell.v]
  ELSE IF cell.t = "str" /\ IntOk(cell.s) THEN [ok |-> TRUE, v |-> IntVal(cell.s)]
  ELSE [ok |-> FALSE, v |-> 0]

safe_time_str(val) == IF IsNa(val) THEN << >> ELSE Prefix(PyStr(val), 5)

build_tidsperiode(start, end) == safe_time_str(start) \o << "-" >> \o safe_time_str(end)

\* The try block of parse_start_time_to_minutes: unpacking "hh, mm" needs
\* exactly two parts, and both int() calls must succeed.
parse_start_time_to_minutes(tidsperiode) ==
  LET s     == Strip(Split(tidsperiode, "-")[1])
      parts == Split(s, ":")
  IN IF Len(parts) = 2 /\ IntOk(parts[1]) /\ IntOk(parts[2])
       THEN IntVal(parts[1]) * 60 + IntVal(parts[2])
       ELSE 0

time_to_hour(t) == IF IntOk(Prefix(t, 2)) THEN IntVal(Prefix(t, 2)) ELSE 0

(***************************************************************************)
(* RATE LOGIC (app.py lines 212-297).  Rates in units of 1/400 kr.         *)
(***************************************************************************)
Kr(n) == n * 400

KrOre(kr, ore) == (kr * 100 + ore) * 4

beregn_takst_ajour(row) ==
  LET helligdag  == row.Helligdag = "Ja"
      personale  == row.Personale
      start_hour == time_to_hour(Split(row.Tidsperiode, "-")[1])
      dag        == start_hour < 15
      weekend    == Weekday(row.Dato) >= 5
  IN IF personale = Ufaglaert THEN
       (IF helligdag THEN (IF dag THEN Kr(215) ELSE Kr(220))
        ELSE IF weekend /\ dag THEN Kr(215)
        ELSE IF weekend THEN Kr(220)
        ELSE IF dag THEN Kr(175) ELSE Kr(210))
     ELSE IF personale = Hjaelper THEN
       (IF helligdag THEN (IF dag THEN Kr(215) ELSE Kr(220))
        ELSE IF weekend /\ dag THEN Kr(215)
        ELSE IF weekend THEN Kr(220)
        ELSE IF dag THEN Kr(200) ELSE Kr(210))
     ELSE IF personale = Assistent THEN
       (IF helligdag THEN (IF dag THEN Kr(230) ELSE Kr(240))
        ELSE IF weekend /\ dag THEN Kr(230)
        ELSE IF weekend THEN Kr(240)
        ELSE IF dag THEN Kr(220) ELSE Kr(225))
     ELSE 0

\* Variant: the weekend test placed before the holiday test.
beregn_takst_dansk_weekend_first(row) ==
  IF Weekday(row.Dato) >= 5 THEN Kr(300)
  ELSE IF row.Helligdag = "Ja" THEN Kr(350)
  ELSE IF time_to_hour(Split(row.Tidsperiode, "-")[1]) >= 15 THEN Kr(280)
  ELSE Kr(255)

beregn_takst_dansk(row) ==
  IF row.Helligdag = "Ja" THEN Kr(350)
  ELSE IF Weekday(row.Dato) >= 5 THEN Kr(300)
  ELSE IF time_to_hour(Split(row.Tidsperiode, "-")[1]) >= 15 THEN Kr(280)
  ELSE Kr(255)

DITVIKAR_RATES ==
  (Hjaelper :> [weekday_day   |-> KrOre(333, 0),  weekday_night |-> KrOre(406, 26),
                weekend_day   |-> KrOre(499, 50), weekend_night |-> KrOre(572, 76),
                holiday_day   |-> KrOre(666, 0),  holiday_night |-> KrOre(739, 26)])
  @@ (Assistent :> [weekday_day   |-> KrOre(353, 0),  weekday_night |-> KrOre(430, 66),
                    weekend_day   |-> KrOre(529, 50), weekend_night |-> KrOre(607, 16),
                    holiday_day   |-> KrOre(706, 0),  holiday_night |-> KrOre(783, 66)])
  @@ (Sygeplejerske :> [weekday_day   |-> KrOre(386, 0),  weekday_night |-> KrOre(482, 50),
                        weekend_day   |-> KrOre(579, 0),  weekend_night |-> KrOre(675, 50),
                        holiday_day   |-> KrOre(772, 0),  holiday_night |-> KrOre(868, 50)])

is_day_window(start_min) == 6 * 60 <= start_min /\ start_min < 15 * 60

\* Variant: a category absent from the table is billed at the helper rates.
beregn_takst_dit_fallback(row) ==
  LET rates     == IF row.Personale \in DOMAIN DITVIKAR_RATES
                     THEN DITVIKAR_RATES[row.Personale]
                     ELSE DITVIKAR_RATES[Hjaelper]
      helligdag == row.Helligdag = "Ja"
      weekend   == Weekday(row.Dato) >= 5
      day       == is_day_window(parse_start_time_to_minutes(row.Tidsperiode))
  IN IF helligdag THEN (IF day THEN rates.holiday_day ELSE rates.holiday_night)
     ELSE IF weekend THEN (IF day THEN rates.weekend_day ELSE rates.weekend_night)
     ELSE IF day THEN rates.weekday_day ELSE rates.weekday_night

beregn_takst_dit(row) ==
  IF row.Personale \notin DOMAIN DITVIKAR_RATES THEN 0
  ELSE LET rates     == DITVIKAR_RATES[row.Personale]
           helligdag == row.Helligdag = "Ja"
           weekend   == Weekday(row.Dato) >= 5
           start_min == parse_start_time_to_minutes(row.Tidsperiode)
           day       == is_day_window(start_min)
       IN IF helligdag THEN (IF day THEN rates.holiday_day ELSE rates.holiday_night)
          ELSE IF weekend THEN (IF day THEN rates.weekend_day ELSE rates.weekend_night)
          ELSE IF day THEN rates.weekday_day ELSE rates.weekday_night

Clients == {"ajour", "dansk", "dit"}

\* The rate function handed to build_invoice_df for each client.
rate_func(c, row) ==
  IF c = "ajour" THEN beregn_takst_ajour(row)
  ELSE IF c = "dansk" THEN beregn_takst_dansk(row)
  ELSE beregn_takst_dit(row)

(***************************************************************************)
(* BASE CLEANING (app.py lines 132-170)                                    *)
(*                                                                         *)
(* A sheet row is a record of cells: Dato, Starttid, Sluttid, Timer,       *)
(* Personalegruppe, Jobfunktion and Afdeling are cells, Medarbejder is a   *)
(* text.  The column "Shift status" is required but never read.  idx is    *)
(* the frame's index label (the position of the row in the sheet).         *)
(***************************************************************************)
needed_present(sheet) == sheet.columns_ok

WithIndex(rows) == [i \in 1..Len(rows) |-> [idx |-> i, cells |-> rows[i]]]

\* Variant: the "> 0" test of the hours filter left out.
TimerKeep_notna(r) == to_numeric(r.cells.Timer).ok

TimerKeep(r) == to_numeric(r.cells.Timer).ok /\ to_numeric(r.cells.Timer).v > 0

DatoKeep(r) == ensure_datetime(r.cells.Dato).ok

CleanRow(r) ==
  LET c    == r.cells
      dato == ensure_datetime(c.Dato)
      tp   == build_tidsperiode(c.Starttid, c.Sluttid)
  IN [idx             |-> r.idx,
      Dato            |-> Date(dato.y, dato.m, dato.d),
      Medarbejder     |-> c.Medarbejder,
      Timer           |-> to_numeric(c.Timer).v,
      Jobfunktion     |-> c.Jobfunktion,
      Afdeling        |-> c.Afdeling,
      Tidsperiode     |-> tp,
      Jobfunktion_raw |-> c.Jobfunktion,
      Personale       |-> normalize_personale(c.Personalegruppe),
      StartMin        |-> parse_start_time_to_minutes(tp)]

\* rens_data_base for a sheet that has every needed column.
rens_data_base(rows) ==
  LET hours == SelectSeq(WithIndex(rows), TimerKeep)
      dated == SelectSeq(hours, DatoKeep)
  IN [i \in 1..Len(dated) |-> CleanRow(dated[i])]

(***************************************************************************)
(* Department filters (app.py lines 424-437): re.search of a pattern made  *)
(* of literals, \s* and an optional character.                             *)
(***************************************************************************)
Lit(s) == [k |-> "lit", s |-> s]

Ws == [k |-> "ws"]

Opt(c) == [k |-> "opt", c |-> c]

RECURSIVE MatchAt(_, _, _)
MatchAt(s, i, pat) ==
  IF pat = << >> THEN TRUE
  ELSE LET e == Head(pat)
       IN IF e.k = "lit"
            THEN /\ i + Len(e.s) - 1 <= Len(s)
                 /\ SubSeq(s, i, i + Len(e.s) - 1) = e.s
                 /\ MatchAt(s, i + Len(e.s), Tail(pat))
          ELSE IF e.k = "ws"
            THEN \E n \in 0..(Len(s) - i + 1) :
                   /\ \A j \in i..(i + n - 1) : IsSpace(s[j])
                   /\ MatchAt(s, i + n, Tail(pat))
          ELSE \/ MatchAt(s, i, Tail(pat))
               \/ (i <= Len(s) /\ s[i] = e.c /\ MatchAt(s, i + 1, Tail(pat)))

Search(s, pat) == \E i \in 1..(Len(s) + 1) : MatchAt(s, i, pat)

AjourPatterns ==
  { << Lit(<< "a", "j", "o", "u", "r" >>) >>,
    << Lit(<< "a", "k", "u", "t" >>), Ws, Opt("-"), Ws, Lit(<< "v", "i", "k", "a", "r" >>) >>,
    << Lit(<< "a", "k", "u", "t", "v", "i", "k", "a", "r" >>) >> }

DanskPatterns ==
  { << Lit(<< "d", "a", "n", "s", "k" >>), Ws,
       Lit(<< "o", "m", "s", "o", "r", "g", "s", "p", "l", "e", "j", "e" >>) >> }

DitPatterns ==
  { << Lit(<< "d", "i", "t" >>), Ws, Lit(<< "v", "i", "k", "a", "r" >>) >>,
    << Lit(<< "d", "i", "t", "v", "i", "k", "a", "r" >>) >>,
    << Lit(<< "d", "i", "t" >>), Ws,
       Lit(<< "v", "i", "k", "a", "r", "b", "u", "r", "e", "a", "u" >>) >>,
    << Lit(<< "d", "i", "t" >>), Ws,
       Lit(<< "v", "i", "k", "a", "r", "b", "u", "e", "r", "o", "u" >>) >> }

Patterns(c) ==
  IF c = "ajour" THEN AjourPatterns ELSE IF c = "dansk" THEN DanskPatterns ELSE DitPatterns

\* afdeling_lower.str.contains(pattern, regex=True) for one row.
afdeling_matches(c, r) ==
  LET afdeling_lower == Lower(PyStr(r.Afdeling))
  IN \E pat \in Patterns(c) : Search(afdeling_lower, pat)

(***************************************************************************)
(* Display location per client (app.py lines 176-205, 439-446)             *)
(***************************************************************************)
byer ==
  << << "a", "l", "l", "e", "r", "ø", "d" >>,
     << "e", "g", "e", "d", "a", "l" >>,
     << "f", "r", "e", "d", "e", "r", "i", "k", "s", "u", "n", "d" >>,
     << "s", "o", "l", "r", "ø", "d" >>,
     << "h", "e", "r", "l", "e", "v" >>,
     << "r", "i", "n", "g", "s", "t", "e", "d" >>,
     << "k", "ø", "g", "e" >> >>

Kirsten == << "k", "i", "r", "s", "t", "e", "n" >>

find_by(txt) ==
  LET t == Lower(PyStr(txt))
  IN IF \E i \in 1..Len(byer) : Contains(t, byer[i])
       THEN byer[CHOOSE i \in 1..Len(byer) :
                   Contains(t, byer[i]) /\ \A j \in 1..(i - 1) : ~Contains(t, byer[j])]
     ELSE IF Contains(t, Kirsten) THEN << "k", "ø", "g", "e" >>
     ELSE << "a", "n", "d", "e", "t" >>

\* An empty cell is NaN, which is truthy: only the empty text returns "".
extract_location_dansk(jobfunction) ==
  IF jobfunction.t = "str" /\ jobfunction.s = << >> THEN << >>
  ELSE LET parts == Split(PyStr(jobfunction), "-")
       IN IF Len(parts) > 1 THEN Strip(parts[2]) ELSE Strip(PyStr(jobfunction))

extract_location_dit(jobfunction) == extract_location_dansk(jobfunction)

display_location(c, jobfunction) ==
  IF c = "ajour" THEN find_by(jobfunction)
  ELSE IF c = "dansk" THEN extract_location_dansk(jobfunction)
  ELSE extract_location_dit(jobfunction)

\* df_ajour, df_dansk, df_dit: the client's filter, then its display location.
df_customer(c, cleaned) ==
  LET matches(r) == afdeling_matches(c, r)
      mine == SelectSeq(cleaned, matches)
  IN [i \in 1..Len(mine) |->
        [mine[i] EXCEPT !.Jobfunktion = display_location(c, mine[i].Jobfunktion)]]

(***************************************************************************)
(* BUILD INVOICE DF (app.py lines 389-401)                                 *)
(***************************************************************************)
\* inv["Samlet"] = inv["Timer"] * inv["Takst"]
samlet(timer, takst) == timer * takst

\* Variant: the date compared before the location.
SortKeyLess_date_first(a, b) ==
  IF Ordinal(a.Dato) # Ordinal(b.Dato) THEN Ordinal(a.Dato) < Ordinal(b.Dato)
  ELSE IF a.Jobfunktion # b.Jobfunktion THEN StrLess(a.Jobfunktion, b.Jobfunktion)
  ELSE IF a.StartMin # b.StartMin THEN a.StartMin < b.StartMin
  ELSE StrLess(a.Medarbejder, b.Medarbejder)

\* Variant: the start time compared before the date.
SortKeyLess_start_first(a, b) ==
  IF a.Jobfunktion # b.Jobfunktion THEN StrLess(a.Jobfunktion, b.Jobfunktion)
  ELSE IF a.StartMin # b.StartMin THEN a.StartMin < b.StartMin
  ELSE IF Ordinal(a.Dato) # Ordinal(b.Dato) THEN Ordinal(a.Dato) < Ordinal(b.Dato)
  ELSE StrLess(a.Medarbejder, b.Medarbejder)

\* The order of sort_values(["Jobfunktion","Dato","StartMin","Medarbejder"]):
\* a sorts strictly before b.
SortKeyLess(a, b) ==
  IF a.Jobfunktion # b.Jobfunktion THEN StrLess(a.Jobfunktion, b.Jobfunktion)
  ELSE IF Ordinal(a.Dato) # Ordinal(b.Dato) THEN Ordinal(a.Dato) < Ordinal(b.Dato)
  ELSE IF a.StartMin # b.StartMin THEN a.StartMin < b.StartMin
  ELSE StrLess(a.Medarbejder, b.Medarbejder)

\* Stable insertion: x goes before the first element that sorts after it.
RECURSIVE InsertSorted(_, _)
InsertSorted(sorted, x) ==
  IF sorted = << >> THEN << x >>
  ELSE IF SortKeyLess(x, Head(sorted)) THEN << x >> \o sorted
  ELSE << Head(sorted) >> \o InsertSorted(Tail(sorted), x)

\* DataFrame.sort_values on several columns is a stable sort.
RECURSIVE sort_values(_)
sort_values(rows) ==
  IF rows = << >> THEN << >>
  ELSE InsertSorted(sort_values(SubSeq(rows, 1, Len(rows) - 1)), rows[Len(rows)])

build_invoice_df(c, customer_rows, hellig_set) ==
  LET line(r) ==
        LET helligdag == IF r.Dato \in hellig_set THEN "Ja" ELSE "Nej"
            takst     == rate_func(c, [Helligdag   |-> helligdag,
                                       Personale   |-> r.Personale,
                                       Tidsperiode |-> r.Tidsperiode,
                                       Dato        |-> r.Dato])
        IN [idx         |-> r.idx,
            Dato        |-> r.Dato,
            Medarbejder |-> r.Medarbejder,
            Tidsperiode |-> r.Tidsperiode,
            StartMin    |-> r.StartMin,
            Timer       |-> r.Timer,
            Personale   |-> r.Personale,
            Jobfunktion |-> r.Jobfunktion,
            Helligdag   |-> helligdag,
            Takst       |-> takst,
            Samlet      |-> samlet(r.Timer, takst)]
      inv    == [i \in 1..Len(customer_rows) |-> line(customer_rows[i])]
      sorted == sort_values(inv)
      drop(l) == [idx         |-> l.idx,
                  Dato        |-> l.Dato,
                  Medarbejder |-> l.Medarbejder,
                  Tidsperiode |-> l.Tidsperiode,
                  Timer       |-> l.Timer,
                  Personale   |-> l.Personale,
                  Jobfunktion |-> l.Jobfunktion,
                  Helligdag   |-> l.Helligdag,
                  Takst       |-> l.Takst,
                  Samlet      |-> l.Samlet]
  IN [i \in 1..Len(sorted) |-> drop(sorted[i])]

(***************************************************************************)
(* Kirsten +10 (app.py lines 476-486).  merge() gives the result a fresh   *)
(* index; idx stays on each line as a history field naming the sheet row   *)
(* the left-hand line was built from.                                      *)
(***************************************************************************)
kirsten_flag(ajour_rows) ==
  [i \in 1..Len(ajour_rows) |->
     [Dato        |-> ajour_rows[i].Dato,
      Medarbejder |-> ajour_rows[i].Medarbejder,
      Tidsperiode |-> ajour_rows[i].Tidsperiode,
      Kirsten     |-> Contains(Lower(PyStr(ajour_rows[i].Jobfunktion_raw)), Kirsten)]]

\* inv.merge(flags, on=["Dato","Medarbejder","Tidsperiode"], how="left"),
\* then fillna(False): one output line per matching pair, in the order of
\* the left frame; a left line without a match is kept with the flag False.
RECURSIVE merge_left(_, _)
merge_left(inv, flags) ==
  IF inv = << >> THEN << >>
  ELSE LET l == Head(inv)
           same(f) == /\ f.Dato = l.Dato
                      /\ f.Medarbejder = l.Medarbejder
                      /\ f.Tidsperiode = l.Tidsperiode
           hits == SelectSeq(flags, same)
           out  == IF hits = << >> THEN << [line |-> l, Kirsten |-> FALSE] >>
                   ELSE [j \in 1..Len(hits) |-> [line |-> l, Kirsten |-> hits[j].Kirsten]]
       IN out \o merge_left(Tail(inv), flags)

kirsten_surcharge(inv, ajour_rows) ==
  LET merged == merge_left(inv, kirsten_flag(ajour_rows))
      takst(m) == IF m.Kirsten THEN m.line.Takst + Kr(10) ELSE m.line.Takst
  IN [i \in 1..Len(merged) |->
        [merged[i].line EXCEPT !.Takst  = takst(merged[i]),
                               !.Samlet = samlet(merged[i].line.Timer, takst(merged[i]))]]

\* The invoice handed to generer_pdf for client c (app.py lines 473-500).
invoice_for(c, customer_rows, hellig_set) ==
  IF c = "ajour"
    THEN kirsten_surcharge(build_invoice_df(c, customer_rows, hellig_set), customer_rows)
    ELSE build_invoice_df(c, customer_rows, hellig_set)

(***************************************************************************)
(* PDF GENERATION (app.py lines 303-383): the figures of the totals block  *)
(***************************************************************************)
\* total += float(r["Samlet"]) over inv.iterrows()
RECURSIVE sum_samlet(_, _)
sum_samlet(inv, total) ==
  IF inv = << >> THEN total ELSE sum_samlet(Tail(inv), total + Head(inv).Samlet)

\* Variant: the tax taken as the share of a gross amount (20 %).
moms_of_gross(total) == (total * 20) \div 100

\* moms = total * 0.25
moms_of(total) == (total * 25) \div 100

NoDoc ==
  [made |-> FALSE, fakturanr |-> 0, inv |-> << >>, subtotal |-> 0, moms |-> 0, total |-> 0]

generer_pdf(inv, fakturanr) ==
  LET total == sum_samlet(inv, 0)
      moms  == moms_of(total)
  IN [made |-> TRUE, fakturanr |-> fakturanr, inv |-> inv,
      subtotal |-> total, moms |-> moms, total |-> total + moms]

(***************************************************************************)
(* The generate gate (app.py lines 458-469)                                *)
(***************************************************************************)
\* Variant: a missing number blocks whether or not the client has rows.
blocks_without_rows(c, frames, numbers) == numbers[c] <= 0

blocks(c, frames, numbers) == Len(frames[c]) > 0 /\ numbers[c] <= 0

can_generate_of(frames, numbers) ==
  LET g0 == TRUE
      g1 == IF blocks("ajour", frames, numbers) THEN FALSE ELSE g0
      g2 == IF blocks("dansk", frames, numbers) THEN FALSE ELSE g1
      g3 == IF blocks("dit", frames, numbers) THEN FALSE ELSE g2
  IN g3

(***************************************************************************)
(* Inputs                                                                  *)
(***************************************************************************)
\* Most rows of an uploaded sheet.
MaxRows == 2

\* Most lines of an invoice handed directly to generer_pdf.
MaxLines == 3

T0500 == << "0", "5", ":", "0", "0" >>

T0700 == << "0", "7", ":", "0", "0" >>

T0800 == << "0", "8", ":", "0", "0" >>

T1500 == << "1", "5", ":", "0", "0" >>

T1600 == << "1", "6", ":", "0", "0" >>

\* Start-time texts that are not HH:MM.
T16dot00 == << "1", "6", ".", "0", "0" >>

T16colxx == << "1", "6", ":", "x", "x" >>

Tabcd == << "a", "b", ":", "c", "d" >>

T8col00 == << "8", ":", "0", "0" >>

Anna == << "A", "n", "n", "a" >>

Bo == << "B", "o" >>

Saturday == DateCell(2024, 1, 6)

Monday == DateCell(2024, 1, 8)

JobHerlev == Txt(<< "V", "i", "k", "a", "r", " ", "-", " ", "H", "e", "r", "l", "e", "v" >>)

JobKirsten == Txt(<< "B", "o", "r", "g", "e", "r", " ", "K", "i", "r", "s", "t", "e", "n" >>)

JobHelsinge ==
  Txt(<< "V", "i", "k", "a", "r", " ", "-", " ", "H", "e", "l", "s", "i", "n", "g", "e" >>)

AfdAjour == Txt(<< "A", "j", "o", "u", "r", " ", "C", "a", "r", "e" >>)

AfdAkut == Txt(<< "A", "k", "u", "t", " ", "-", " ", "V", "i", "k", "a", "r" >>)

AfdDansk ==
  Txt(<< "D", "a", "n", "s", "k", " ", "O", "m", "s", "o", "r", "g", "s", "p", "l", "e", "j", "e" >>)

AfdDit ==
  Txt(<< "D", "i", "t", " ", "V", "i", "k", "a", "r", "b", "u", "e", "r", "o", "u" >>)

AfdAndet == Txt(<< "A", "n", "d", "e", "t" >>)

GrpUfaglaert == Txt(<< "U", "f", "a", "g", "l", "æ", "r", "t" >>)

GrpHjaelper == Txt(<< "S", "o", "c", "i", "a", "l", "h", "j", "æ", "l", "p", "e", "r" >>)

GrpAssistent2 == Txt(<< " ", "A", "s", "s", "i", "s", "t", "e", "n", "t", NBSP, "2" >>)

GrpSygeplejerske ==
  Txt(<< "S", "y", "g", "e", "p", "l", "e", "j", "e", "r", "s", "k", "e" >>)

GrpPaedagog == Txt(<< "P", "æ", "d", "a", "g", "o", "g" >>)

\* A shift of client Ajour: Monday 2024-01-08, 07:00-15:00, 8 hours.
Base ==
  [Dato            |-> Monday,
   Medarbejder     |-> Anna,
   Starttid        |-> Txt(T0700),
   Sluttid         |-> Txt(T1500),
   Timer           |-> Num(8),
   Personalegruppe |-> GrpHjaelper,
   Jobfunktion     |-> JobHerlev,
   Afdeling        |-> AfdAjour]

SaturdayShift(r) ==
  [r EXCEPT !.Dato = Saturday, !.Starttid = Txt(T0800), !.Sluttid = Txt(T1600)]

\* The Kirsten row shares (date, employee, time window) with the Saturday
\* row at Herlev.
AjourRows ==
  { Base,
    SaturdayShift(Base),
    SaturdayShift([Base EXCEPT !.Jobfunktion = JobKirsten, !.Afdeling = AfdAkut,
                               !.Timer = Num(6)]),
    [Base EXCEPT !.Starttid = Txt(T0800)],
    [Base EXCEPT !.Medarbejder = Bo, !.Personalegruppe = GrpSygeplejerske] }

DanskBase ==
  [Base EXCEPT !.Afdeling = AfdDansk, !.Jobfunktion = JobHelsinge,
               !.Personalegruppe = GrpAssistent2]

\* The Saturday row carries its date and hours as text cells.
DanskRows ==
  { DanskBase,
    [SaturdayShift(DanskBase) EXCEPT
       !.Dato  = Txt(<< "0", "6", "-", "0", "1", "-", "2", "0", "2", "4" >>),
       !.Timer = Txt(<< "1", "0" >>)] }

DitBase ==
  [Base EXCEPT !.Afdeling = AfdDit, !.Jobfunktion = JobHelsinge,
               !.Personalegruppe = GrpSygeplejerske]

DitRows ==
  { DitBase,
    [SaturdayShift(DitBase) EXCEPT !.Starttid = Txt(T16dot00)] }

\* Rows with invalid hours or an invalid date.
BadRows ==
  { [Base EXCEPT !.Timer = Num(0)],
    [DanskBase EXCEPT !.Timer = Txt(<< "x" >>)],
    [DitBase EXCEPT !.Timer = NaN],
    [Base EXCEPT !.Dato = Txt(<< "3", "0", "-", "0", "2", "-", "2", "0", "2", "4" >>)] }

\* A row of no client.
OtherRows == { [Base EXCEPT !.Afdeling = AfdAndet] }

SheetRows == AjourRows \cup DanskRows \cup DitRows \cup BadRows \cup OtherRows

\* Inputs of the rate functions, as rens_data_base and build_invoice_df
\* hand them over.
TakstGrupper ==
  { GrpUfaglaert, GrpHjaelper, GrpAssistent2, GrpSygeplejerske, GrpPaedagog, NaN }

TakstDatoer == { Date(2024, 1, 5), Date(2024, 1, 6), Date(2024, 1, 7), Date(2024, 1, 8) }

TakstStarttider ==
  { Txt(T0500), Txt(T0700), Txt(T1500), Txt(T1600), NaN,
    Txt(T16dot00), Txt(T16colxx), Txt(Tabcd), Txt(T8col00) }

TakstRows ==
  { [Helligdag   |-> h,
     Personale   |-> normalize_personale(g),
     Tidsperiode |-> build_tidsperiode(st, Txt(T1600)),
     Dato        |-> d] :
      h \in {"Ja", "Nej"}, g \in TakstGrupper, st \in TakstStarttider, d \in TakstDatoer }

\* Lines handed directly to generer_pdf: hours and rate.
PdfTimer == {6, 8, 10}

PdfTakst == { Kr(210), Kr(255), Kr(300), KrOre(406, 26) }

PdfLines == { [Timer |-> t, Takst |-> k] : t \in PdfTimer, k \in PdfTakst }

(***************************************************************************)
(* State                                                                   *)
(***************************************************************************)
\* The values typed into a number_input: 0 (its default) or a number > 0.
FakturaNumbers == {0, 1}

VARIABLES
  sheet,         \* the uploaded file: [uploaded, columns_ok, rows]
  fejl,          \* TRUE when the run ended in st.error(f"Fejl: {e}")
  clean,         \* rens_data_base(raw)
  df,            \* df_ajour, df_dansk, df_dit
  faktura,       \* the three number_input values
  helligdage,    \* the multiselect of holiday dates
  can_generate,  \* the gate of the button
  docs,          \* the documents offered for download in this run
  row,           \* a row handed to the rate functions
  takst,         \* the rate each policy returned for row
  lines,         \* an invoice handed to generer_pdf
  pdf            \* the totals block printed for lines

vars ==
  << sheet, fejl, clean, df, faktura, helligdage, can_generate, docs,
     row, takst, lines, pdf >>

NoSheet == [uploaded |-> FALSE, columns_ok |-> TRUE, rows |-> << >>]

NoFrames == [c \in Clients |-> << >>]

NoDocs == [c \in Clients |-> NoDoc]

NoRow == [Helligdag |-> "Nej", Personale |-> << >>, Tidsperiode |-> << >>,
          Dato |-> Date(2024, 1, 8)]

NoTakst == [c \in Clients |-> [done |-> FALSE, v |-> 0]]

\* The state before a file is uploaded: every number_input at 0.
InitApp ==
  /\ sheet = NoSheet
  /\ fejl = FALSE
  /\ clean = << >>
  /\ df = NoFrames
  /\ faktura = [c \in Clients |-> 0]
  /\ helligdage = {}
  /\ can_generate = FALSE
  /\ docs = NoDocs

Init ==
  /\ InitApp
  /\ row = NoRow
  /\ takst = NoTakst
  /\ lines = << >>
  /\ pdf = NoDoc

(***************************************************************************)
(* The script, run once per interaction (app.py lines 409-507)             *)
(***************************************************************************)
\* A file is uploaded.  With a needed column missing rens_data_base raises
\* and the run ends in st.error; otherwise the frames and the gate are
\* computed.  One upload per session.
Upload ==
  /\ ~sheet.uploaded
  /\ \E ok \in BOOLEAN, n \in 0..MaxRows :
       \E rows \in [1..n -> SheetRows] :
         /\ ok \/ n = 0
         /\ sheet' = [uploaded |-> TRUE, columns_ok |-> ok, rows |-> rows]
         /\ fejl' = ~needed_present(sheet')
         /\ clean' = IF needed_present(sheet') THEN rens_data_base(rows) ELSE << >>
         /\ df' = [c \in Clients |-> df_customer(c, clean')]
         /\ can_generate' = (needed_present(sheet') /\ can_generate_of(df', faktura))
  /\ helligdage' = {}
  /\ docs' = NoDocs
  /\ UNCHANGED << faktura, row, takst, lines, pdf >>

\* An invoice number is typed; the script runs again without the button.
SetFaktura ==
  /\ \E c \in Clients, n \in FakturaNumbers :
       /\ n # faktura[c]
       /\ faktura' = [faktura EXCEPT ![c] = n]
  /\ can_generate' = (sheet.uploaded /\ ~fejl /\ can_generate_of(df, faktura'))
  /\ docs' = NoDocs
  /\ UNCHANGED << sheet, fejl, clean, df, helligdage, row, takst, lines, pdf >>

\* sorted(clean["Dato"].dt.date.unique())
all_dates == { clean[i].Dato : i \in 1..Len(clean) }

\* One date of the sheet is added to or removed from the holidays.
SelectHelligdage ==
  /\ sheet.uploaded /\ ~fejl
  /\ \E d \in all_dates :
       helligdage' = IF d \in helligdage THEN helligdage \ {d} ELSE helligdage \cup {d}
  /\ docs' = NoDocs
  /\ UNCHANGED << sheet, fejl, clean, df, faktura, can_generate, row, takst, lines, pdf >>

\* st.button("Generer PDF'er", disabled=not can_generate): the button exists
\* once the file has been read without error.
button_enabled == sheet.uploaded /\ ~fejl /\ can_generate

\* The button "Generer PDF'er" is pressed: one document per client with rows.
Generate ==
  /\ button_enabled
  /\ docs' = [c \in Clients |->
                IF Len(df[c]) > 0
                  THEN generer_pdf(invoice_for(c, df[c], helligdage), faktura[c])
                  ELSE NoDoc]
  /\ UNCHANGED << sheet, fejl, clean, df, faktura, helligdage, can_generate,
                  row, takst, lines, pdf >>

Next == Upload \/ SetFaktura \/ SelectHelligdage \/ Generate

Spec == Init /\ [][Next]_vars

(***************************************************************************)
(* The rate functions applied to one row                                   *)
(***************************************************************************)
InitTakst ==
  /\ InitApp
  /\ row \in TakstRows
  /\ takst = NoTakst
  /\ lines = << >>
  /\ pdf = NoDoc

BeregnTakst ==
  /\ \E c \in Clients :
       /\ ~takst[c].done
       /\ takst' = [takst EXCEPT ![c] = [done |-> TRUE, v |-> rate_func(c, row)]]
  /\ UNCHANGED << sheet, fejl, clean, df, faktura, helligdage, can_generate, docs,
                  row, lines, pdf >>

NextTakst == BeregnTakst

SpecTakst == InitTakst /\ [][NextTakst]_vars

(***************************************************************************)
(* generer_pdf applied to one invoice                                      *)
(***************************************************************************)
InitPdf ==
  /\ InitApp
  /\ row = NoRow
  /\ takst = NoTakst
  /\ \E n \in 0..MaxLines : lines \in [1..n -> PdfLines]
  /\ pdf = NoDoc

\* The line totals of build_invoice_df, then the totals block.
SkrivPdf ==
  /\ ~pdf.made
  /\ pdf' = generer_pdf(
              [i \in 1..Len(lines) |->
                 [Timer  |-> lines[i].Timer,
                  Takst  |-> lines[i].Takst,
                  Samlet |-> samlet(lines[i].Timer, lines[i].Takst)]],
              1)
  /\ UNCHANGED << sheet, fejl, clean, df, faktura, helligdage, can_generate, docs,
                  row, takst, lines >>

NextPdf == SkrivPdf

SpecPdf == InitPdf /\ [][NextPdf]_vars

(***************************************************************************)
(* Properties of the rate functions (checked under SpecTakst)              *)
(***************************************************************************)
\* row with another date and another start-time cell.
RowAt(d, st) ==
  [row EXCEPT !.Dato = d, !.Tidsperiode = build_tidsperiode(st, Txt(T1600))]

\* The holiday rates of each policy for a category, as the price tables of
\* app.py lines 221-229, 238 and 253-270 give them (day rate, night rate).
HolidayRates(c, personale) ==
  IF c = "dansk" THEN { Kr(350) }
  ELSE IF c = "ajour" THEN
    (IF personale \in { Ufaglaert, Hjaelper } THEN { Kr(215), Kr(220) }
     ELSE IF personale = Assistent THEN { Kr(230), Kr(240) }
     ELSE { 0 })
  ELSE
    (IF personale = Hjaelper THEN { KrOre(666, 0), KrOre(739, 26) }
     ELSE IF personale = Assistent THEN { KrOre(706, 0), KrOre(783, 66) }
     ELSE IF personale = Sygeplejerske THEN { KrOre(772, 0), KrOre(868, 50) }
     ELSE { 0 })

\* C1 as stated: with the holiday flag set, each policy returns its holiday
\* rate, the same for every weekday and every start time of the shift.
C1_HolidayRateSameForEveryStart ==
  \A c \in Clients :
    (takst[c].done /\ row.Helligdag = "Ja") =>
      /\ takst[c].v \in HolidayRates(c, row.Personale)
      /\ \A d \in TakstDatoer, st \in TakstStarttider :
           rate_func(c, RowAt(d, st)) = takst[c].v

\* C1 as amended: with the holiday flag set, each policy returns one of its
\* holiday rates for the category, and that rate is the same for every
\* weekday; it is the same for every start time under beregn_takst_dansk
\* only.  Under beregn_takst_ajour it is the day rate when the start hour is
\* below 15 and the night rate otherwise, under beregn_takst_dit the day
\* rate when the start lies in 06:00-15:00 and the night rate otherwise.
C1_HolidayRateSameForEveryWeekday ==
  \A c \in Clients :
    (takst[c].done /\ row.Helligdag = "Ja") =>
      /\ takst[c].v \in HolidayRates(c, row.Personale)
      /\ \A d \in TakstDatoer : rate_func(c, [row EXCEPT !.Dato = d]) = takst[c].v
      /\ c = "dansk" =>
           \A d \in TakstDatoer, st \in TakstStarttider :
             rate_func(c, RowAt(d, st)) = takst[c].v
      /\ \A d \in TakstDatoer, st \in TakstStarttider :
           LET other == RowAt(d, st)
               hour(r) == time_to_hour(Split(r.Tidsperiode, "-")[1])
               mins(r) == parse_start_time_to_minutes(r.Tidsperiode)
           IN /\ (c = "ajour" /\ ((hour(other) < 15) <=> (hour(row) < 15)))
                   => rate_func(c, other) = takst[c].v
              /\ (c = "dit" /\ (is_day_window(mins(other)) <=> is_day_window(mins(row))))
                   => rate_func(c, other) = takst[c].v

\* A holiday on a weekday: the three policies have rated a helper's Monday
\* day shift at their holiday rates (215, 350, 666.00), not at the weekday
\* rates.
C1_Witness ==
  /\ \A c \in Clients : takst[c].done
  /\ row.Helligdag = "Ja"
  /\ Weekday(row.Dato) = 0
  /\ row.Personale = Hjaelper
  /\ takst["ajour"].v = Kr(215)
  /\ takst["dansk"].v = Kr(350)
  /\ takst["dit"].v = KrOre(666, 0)

\* The categories each policy names.
AjourCategories == { Ufaglaert, Hjaelper, Assistent }

DitCategories == { Hjaelper, Assistent, Sygeplejerske }

AllCategories == AjourCategories \cup DitCategories

\* C7 as stated: for a category the policy does not recognise the rate is
\* zero under every weekday, start time and holiday flag, for all three
\* rate functions.
C7_UnknownCategoryIsFree ==
  /\ (takst["ajour"].done /\ row.Personale \notin AjourCategories) => takst["ajour"].v = 0
  /\ (takst["dansk"].done /\ row.Personale \notin AllCategories) => takst["dansk"].v = 0
  /\ (takst["dit"].done /\ row.Personale \notin DitCategories) => takst["dit"].v = 0

\* C7 as amended: beregn_takst_ajour returns 0 for every category other
\* than ufaglært, hjælper and assistent, and beregn_takst_dit returns 0 for
\* every category absent from DITVIKAR_RATES, under every weekday, start
\* time and holiday flag; beregn_takst_dansk does not read the category and
\* returns its tier rate (255, 280, 300 or 350), never 0.
C7_UnknownCategoryFreeForAjourAndDit ==
  /\ (takst["ajour"].done /\ row.Personale \notin AjourCategories) => takst["ajour"].v = 0
  /\ (takst["dit"].done /\ row.Personale \notin DitCategories) => takst["dit"].v = 0
  /\ takst["dansk"].done =>
       /\ takst["dansk"].v \in { Kr(255), Kr(280), Kr(300), Kr(350) }
       /\ \A p \in AllCategories \cup { row.Personale } :
            rate_func("dansk", [row EXCEPT !.Personale = p]) = takst["dansk"].v

\* A category no policy names ("pædagog") has been rated by all three: free
\* under Ajour and Dit Vikarbureau, 255 under Dansk Omsorgspleje.
C7_Witness ==
  /\ \A c \in Clients : takst[c].done
  /\ row.Personale = << "p", "æ", "d", "a", "g", "o", "g" >>
  /\ takst["ajour"].v = 0
  /\ takst["dit"].v = 0
  /\ takst["dansk"].v = Kr(255)

\* The start time of a time window reads as HH:MM: two parts around one
\* colon, each made of digits.
AllDigits(s) == s # << >> /\ \A i \in 1..Len(s) : IsDigit(s[i])

StartParses(tidsperiode) ==
  LET parts == Split(Strip(Split(tidsperiode, "-")[1]), ":")
  IN Len(parts) = 2 /\ AllDigits(parts[1]) /\ AllDigits(parts[2])

Midnight == Txt(<< "0", "0", ":", "0", "0" >>)

RECURSIVE HoursTimesRate(_)
HoursTimesRate(ls) ==
  IF ls = << >> THEN 0 ELSE Head(ls).Timer * Head(ls).Takst + HoursTimesRate(Tail(ls))

Fixture ==
  << [Timer |-> 8, Takst |-> Kr(210)],
     [Timer |-> 6, Takst |-> Kr(255)],
     [Timer |-> 10, Takst |-> Kr(300)] >>

\* C4: the subtotal is the sum over the lines of hours x rate, the tax is
\* 25 % of the subtotal and the grand total is subtotal + tax; hours
\* [8, 6, 10] at rates [210, 255, 300] give 6210, 1552.50 and 7762.50.
C4_Totals ==
  pdf.made =>
    /\ pdf.subtotal = HoursTimesRate(lines)
    /\ pdf.moms * 4 = pdf.subtotal
    /\ pdf.total = pdf.subtotal + pdf.moms
    /\ lines = Fixture =>
         /\ pdf.subtotal = Kr(6210)
         /\ pdf.moms = KrOre(1552, 50)
         /\ pdf.total = KrOre(7762, 50)

\* The totals block of the fixture has been printed.
C4_Witness ==
  /\ pdf.made
  /\ lines = Fixture
  /\ Len(pdf.inv) = 3
  /\ pdf.total = KrOre(7762, 50)

(***************************************************************************)
(* Properties of the invoices (checked under Spec)                         *)
(***************************************************************************)
Processed == sheet.uploaded /\ ~fejl

LineIndexes(c) == 1..Len(docs[c].inv)

\* a is at or before b in the order (location, date, start minutes,
\* employee); the start minutes are those of the line's time window.
LineLeq(a, b) ==
  LET sa == parse_start_time_to_minutes(a.Tidsperiode)
      sb == parse_start_time_to_minutes(b.Tidsperiode)
  IN \/ StrLess(a.Jobfunktion, b.Jobfunktion)
     \/ /\ a.Jobfunktion = b.Jobfunktion
        /\ \/ Ordinal(a.Dato) < Ordinal(b.Dato)
           \/ /\ a.Dato = b.Dato
              /\ \/ sa < sb
                 \/ /\ sa = sb
                    /\ (a.Medarbejder = b.Medarbejder
                          \/ StrLess(a.Medarbejder, b.Medarbejder))

\* C2: the lines of every invoice handed to generer_pdf are in ascending
\* order of (Jobfunktion, Dato, StartMin, Medarbejder), for Ajour after the
\* surcharge merge as well.
C2_InvoiceSorted ==
  \A c \in Clients :
    docs[c].made =>
      \A i \in LineIndexes(c), j \in LineIndexes(c) :
        i < j => LineLeq(docs[c].inv[i], docs[c].inv[j])

\* An Ajour invoice of two lines that the sort has swapped: the second row
\* of the sheet is printed first, strictly before the other.
C2_Witness ==
  /\ docs["ajour"].made
  /\ Len(docs["ajour"].inv) = 2
  /\ docs["ajour"].inv[1].idx = 2
  /\ docs["ajour"].inv[2].idx = 1
  /\ ~LineLeq(docs["ajour"].inv[2], docs["ajour"].inv[1])

W0800_1600 == << "0", "8", ":", "0", "0", "-", "1", "6", ":", "0", "0" >>

W0700_1500 == << "0", "7", ":", "0", "0", "-", "1", "5", ":", "0", "0" >>

IsSaturdayFixture(l) == l.Dato = Date(2024, 1, 6) /\ l.Tidsperiode = W0800_1600

IsMondayFixture(l) == l.Dato = Date(2024, 1, 8) /\ l.Tidsperiode = W0700_1500

\* C3 as stated: of two shifts at one location, Saturday 2024-01-06
\* 08:00-16:00 and Monday 2024-01-08 07:00-15:00, the Monday shift comes
\* first on the invoice.
C3_MondayBeforeSaturday ==
  \A c \in Clients :
    docs[c].made =>
      \A i \in LineIndexes(c), j \in LineIndexes(c) :
        ( /\ IsSaturdayFixture(docs[c].inv[i])
          /\ IsMondayFixture(docs[c].inv[j])
          /\ docs[c].inv[i].Jobfunktion = docs[c].inv[j].Jobfunktion ) => j < i

\* C3 as amended: the Saturday 2024-01-06 shift comes before the Monday
\* 2024-01-08 shift, because within a location the date is compared before
\* the start time.
C3_SaturdayBeforeMonday ==
  \A c \in Clients :
    docs[c].made =>
      \A i \in LineIndexes(c), j \in LineIndexes(c) :
        ( /\ IsSaturdayFixture(docs[c].inv[i])
          /\ IsMondayFixture(docs[c].inv[j])
          /\ docs[c].inv[i].Jobfunktion = docs[c].inv[j].Jobfunktion ) => i < j

\* The fixture on an invoice: the Monday row first in the sheet, the
\* Saturday row (weekday 5) first on the invoice.
C3_Witness ==
  \E c \in Clients :
    /\ docs[c].made
    /\ Len(docs[c].inv) = 2
    /\ IsSaturdayFixture(docs[c].inv[1]) /\ docs[c].inv[1].idx = 2
    /\ IsMondayFixture(docs[c].inv[2]) /\ docs[c].inv[2].idx = 1
    /\ docs[c].inv[1].Jobfunktion = docs[c].inv[2].Jobfunktion
    /\ Weekday(docs[c].inv[1].Dato) = 5
    /\ Weekday(docs[c].inv[2].Dato) = 0

\* Hours that are missing, not a number, or not greater than 0.
HoursInvalid(cell) ==
  \/ cell.t = "nan"
  \/ cell.t = "str" /\ ~IntOk(cell.s)
  \/ cell.t = "str" /\ IntOk(cell.s) /\ IntVal(cell.s) <= 0
  \/ cell.t = "num" /\ cell.v <= 0

\* A date cell that does not parse.
DateInvalid(cell) == ~ensure_datetime(cell).ok

BadRow(r) == HoursInvalid(r.Timer) \/ DateInvalid(r.Dato)

\* C5: rows with invalid hours or an unparseable date are absent from the
\* output of rens_data_base and from every client's frame and invoice,
\* every invoice line has hours > 0 and a valid date, and the run raises no
\* error for the dropped rows.
C5_BadRowsDropped ==
  (sheet.uploaded /\ sheet.columns_ok) =>
    /\ ~fejl
    /\ \A i \in 1..Len(sheet.rows) :
         BadRow(sheet.rows[i]) =>
           /\ \A k \in 1..Len(clean) : clean[k].idx # i
           /\ \A c \in Clients :
                /\ \A k \in 1..Len(df[c]) : df[c][k].idx # i
                /\ \A k \in LineIndexes(c) : docs[c].inv[k].idx # i
    /\ \A c \in Clients :
         \A k \in LineIndexes(c) :
           /\ docs[c].inv[k].Timer > 0
           /\ ValidDate(docs[c].inv[k].Dato.y, docs[c].inv[k].Dato.m, docs[c].inv[k].Dato.d)

\* A sheet with a dropped row and a kept row, whose invoice has been made.
C5_Witness ==
  /\ Len(sheet.rows) = 2
  /\ BadRow(sheet.rows[1])
  /\ ~BadRow(sheet.rows[2])
  /\ Len(clean) = 1
  /\ ~fejl
  /\ \E c \in Clients : docs[c].made /\ Len(docs[c].inv) = 1 /\ docs[c].inv[1].idx = 2

\* The cleaned rows that match a client's department pattern.
MatchingRows(c) == { k \in 1..Len(clean) : afdeling_matches(c, clean[k]) }

Blocked(c) == MatchingRows(c) # {} /\ faktura[c] <= 0

\* C6: generation is enabled exactly when no client has both a matching
\* row and an invoice number <= 0; a client without rows never blocks and
\* gets no document; a run gives a document, carrying a number > 0, to
\* exactly the clients with a matching row.
C6_GenerateGate ==
  Processed =>
    /\ button_enabled <=> (\A c \in Clients : ~Blocked(c))
    /\ \A c \in Clients :
         docs[c].made =>
           /\ MatchingRows(c) # {}
           /\ docs[c].fakturanr > 0
           /\ docs[c].fakturanr = faktura[c]
    /\ (\E c \in Clients : docs[c].made) =>
         \A c \in Clients : docs[c].made <=> MatchingRows(c) # {}

\* Generation has run with one client that had rows and a number, and two
\* clients without rows whose numbers were still 0.
C6_Witness ==
  /\ Processed
  /\ docs["dansk"].made /\ docs["dansk"].fakturanr = 1
  /\ MatchingRows("ajour") = {} /\ faktura["ajour"] = 0 /\ ~docs["ajour"].made
  /\ MatchingRows("dit") = {} /\ faktura["dit"] = 0 /\ ~docs["dit"].made

\* The raw location text of the sheet row a line was built from.
RawLocation(l) == sheet.rows[l.idx].Jobfunktion

HasKirsten(l) == Contains(Lower(PyStr(RawLocation(l))), Kirsten)

BaseRate(l) ==
  beregn_takst_ajour([Helligdag |-> l.Helligdag, Personale |-> l.Personale,
                      Tidsperiode |-> l.Tidsperiode, Dato |-> l.Dato])

\* C8: on the Ajour invoice a line whose raw location contains "kirsten"
\* totals hours x (base rate + 10), and any other line hours x base rate.
C8_KirstenSurcharge ==
  docs["ajour"].made =>
    \A k \in LineIndexes("ajour") :
      LET l == docs["ajour"].inv[k]
      IN l.Samlet = l.Timer * (BaseRate(l) + (IF HasKirsten(l) THEN Kr(10) ELSE 0))

\* C10: every invoice has exactly one line per cleaned row that matched the
\* client's pattern, also when two Ajour rows share (date, employee, time
\* window).
C10_OneLinePerRow ==
  \A c \in Clients :
    docs[c].made =>
      /\ Len(docs[c].inv) = Cardinality(MatchingRows(c))
      /\ \A k \in MatchingRows(c) :
           Cardinality({ j \in LineIndexes(c) : docs[c].inv[j].idx = clean[k].idx }) = 1

====
